---- MODULE Spec2Model ----
(***************************************************************************)
(* A model of goproxy's request dispatch and forwarding engine             *)
(* (src/proxy.go): Proxy.ServeHTTP, forwardHTTP, forwardTunnel,            *)
(* forwardTCP and the header sanitizer removeIssueHeader.                  *)
(*                                                                         *)
(* Header names and values are sequences of one-character strings, so     *)
(* that splitting, trimming and key canonicalisation are computed the way  *)
(* the Go code and its library calls compute them.  Wire lines of the      *)
(* tunnel handshake are strings.                                           *)
(***************************************************************************)
EXTENDS Naturals, Integers, Sequences, FiniteSets, TLC

VARIABLES
    clientConnNum,  \* Proxy.clientConnNum, the live-connection counter
    pc,         \* per request: where its ServeHTTP invocation stands
    gpc,        \* per request: where the goroutine forwardTCP starts stands
    ctx,        \* per request: the Context (Req.Method, Req.Header, abort)
    panicking,  \* per request: a hook panicked and the stack is unwinding
    calls,      \* per request: how often each Delegate method was invoked
    rt,         \* per request: what transport.RoundTrip returned
    rw,         \* per request: the http.ResponseWriter, as the client sees it
    tun,        \* per request: forwardTunnel's locals (parentProxyURL, targetAddr)
    conn,       \* per request: clientConn and targetConn
    hdr0,       \* sanitizer run: the header collection handed in
    hdr1,       \* sanitizer run: the collection after the first application
    hdr,        \* sanitizer run: the collection as it is now
    nApplied    \* sanitizer run: how many times removeIssueHeader was applied

sanVars == <<hdr0, hdr1, hdr, nApplied>>

reqVars == <<clientConnNum, pc, gpc, ctx, panicking, calls, rt, rw, tun, conn>>

vars == <<clientConnNum, pc, gpc, ctx, panicking, calls, rt, rw, tun, conn,
          hdr0, hdr1, hdr, nApplied>>

(***************************************************************************)
(* Bounds.                                                                 *)
(***************************************************************************)
\* longest list of values one header name carries in a sanitizer input
MaxVals == 2

\* how many ServeHTTP invocations there are (they run concurrently)
NumRequests == 2

\* how many bytes a tunnel relays in each direction
MaxBytes == 1

\* how many chunks the body of an upstream response has
MaxBody == 1

\* how many times at most the transport asks for the parent proxy in one
\* round trip (once per attempt; it retries on a stale connection)
MaxProxyCalls == 2

(***************************************************************************)
(* Text helpers: strings as sequences of characters.                       *)
(***************************************************************************)
LowerLetters == <<"a","b","c","d","e","f","g","h","i","j","k","l","m",
                  "n","o","p","q","r","s","t","u","v","w","x","y","z">>

UpperLetters == <<"A","B","C","D","E","F","G","H","I","J","K","L","M",
                  "N","O","P","Q","R","S","T","U","V","W","X","Y","Z">>

Digits == {"0","1","2","3","4","5","6","7","8","9"}

Range(s) == { s[i] : i \in DOMAIN s }

ToUpper(c) ==
    IF \E i \in DOMAIN LowerLetters : LowerLetters[i] = c
    THEN UpperLetters[CHOOSE i \in DOMAIN LowerLetters : LowerLetters[i] = c]
    ELSE c

ToLower(c) ==
    IF \E i \in DOMAIN UpperLetters : UpperLetters[i] = c
    THEN LowerLetters[CHOOSE i \in DOMAIN UpperLetters : UpperLetters[i] = c]
    ELSE c

\* A character is written as itself where a string can hold it; the grave
\* accent and the runes above U+00FF are written by their code point.
Backtick == "U+0060"

\* the bytes net/textproto accepts in a header field name (a token)
IsTokenChar(c) ==
    c \in Range(LowerLetters) \cup Range(UpperLetters) \cup Digits
          \cup {"!","#","$","%","&","'","*","+","-",".","^","_","|","~"}
          \cup {Backtick}

\* vertical tab (U+000B), next line (U+0085), no-break space (U+00A0)
VerticalTab == ""
NextLine == ""
NoBreakSpace == " "

\* the white space above U+00FF: the other runes unicode.IsSpace accepts
WideSpaces ==
    {"U+1680", "U+2000", "U+2001", "U+2002", "U+2003", "U+2004", "U+2005",
     "U+2006", "U+2007", "U+2008", "U+2009", "U+200A", "U+2028", "U+2029",
     "U+202F", "U+205F", "U+3000"}

\* the white space strings.TrimSpace cuts (unicode.IsSpace)
IsSpace(c) ==
    c \in {" ", "\t", "\n", "\r", "\f", VerticalTab, NextLine, NoBreakSpace}
          \cup WideSpaces

\* textproto.CanonicalMIMEHeaderKey: a name holding a byte that is no token
\* byte is returned as it is; otherwise the first letter and every letter
\* after a hyphen are upper-cased and the others lower-cased.
CanonicalMIMEHeaderKey(s) ==
    IF \E i \in DOMAIN s : ~IsTokenChar(s[i])
    THEN s
    ELSE [i \in DOMAIN s |->
            IF i = 1 \/ s[i-1] = "-" THEN ToUpper(s[i]) ELSE ToLower(s[i])]

RECURSIVE TrimLeft(_)
TrimLeft(s) ==
    IF s # <<>> /\ IsSpace(Head(s)) THEN TrimLeft(Tail(s)) ELSE s

RECURSIVE TrimRight(_)
TrimRight(s) ==
    IF s # <<>> /\ IsSpace(s[Len(s)])
    THEN TrimRight(SubSeq(s, 1, Len(s) - 1))
    ELSE s

\* strings.TrimSpace
TrimSpace(s) == TrimRight(TrimLeft(s))

\* strings.Split(s, ","): the fields between the commas, empty ones included
RECURSIVE SplitComma(_)
SplitComma(s) ==
    IF \E i \in DOMAIN s : s[i] = ","
    THEN LET i == CHOOSE j \in DOMAIN s :
                    s[j] = "," /\ \A k \in 1..(j-1) : s[k] # ","
         IN  <<SubSeq(s, 1, i - 1)>> \o SplitComma(SubSeq(s, i + 1, Len(s)))
    ELSE <<s>>

(***************************************************************************)
(* http.Header: a function from the names present to their value lists.    *)
(***************************************************************************)
\* Header.Get: the first value under the canonical form of the key, or ""
HeaderGet(h, key) ==
    LET k == CanonicalMIMEHeaderKey(key)
    IN  IF k \in DOMAIN h /\ Len(h[k]) > 0 THEN h[k][1] ELSE <<>>

\* Header.Del: drops the canonical form of the key with all its values
HeaderDel(h, key) ==
    [n \in (DOMAIN h) \ {CanonicalMIMEHeaderKey(key)} |-> h[n]]

\* Header.Add: appends one value under the canonical form of the key
HeaderAdd(h, key, v) ==
    LET k == CanonicalMIMEHeaderKey(key)
    IN  [n \in (DOMAIN h) \cup {k} |->
            IF n = k
            THEN (IF k \in DOMAIN h THEN h[k] ELSE <<>>) \o <<v>>
            ELSE h[n]]

H_Connection      == <<"C","o","n","n","e","c","t","i","o","n">>
H_ProxyConnection == <<"P","r","o","x","y","-","C","o","n","n","e","c","t","i","o","n">>
H_KeepAlive       == <<"K","e","e","p","-","A","l","i","v","e">>
H_ProxyAuthenticate == <<"P","r","o","x","y","-","A","u","t","h","e","n","t","i","c","a","t","e">>
H_ProxyAuthorization == <<"P","r","o","x","y","-","A","u","t","h","o","r","i","z","a","t","i","o","n">>
H_Te              == <<"T","e">>
H_Trailer         == <<"T","r","a","i","l","e","r">>
H_TransferEncoding == <<"T","r","a","n","s","f","e","r","-","E","n","c","o","d","i","n","g">>
H_Upgrade         == <<"U","p","g","r","a","d","e">>

\* two names that are not hop-by-hop
H_XCustom == <<"X","-","C","u","s","t","o","m">>
H_Accept  == <<"A","c","c","e","p","t">>

hopHeaders ==
    << H_Connection, H_ProxyConnection, H_KeepAlive, H_ProxyAuthenticate,
       H_ProxyAuthorization, H_Te, H_Trailer, H_TransferEncoding, H_Upgrade >>

\* the loop body of removeConnectionHeaders over the split fields, in order
RECURSIVE DelConnectionFields(_, _)
DelConnectionFields(h, fs) ==
    IF fs = <<>>
    THEN h
    ELSE LET f == TrimSpace(Head(fs))
         IN  DelConnectionFields(IF f # <<>> THEN HeaderDel(h, f) ELSE h,
                                 Tail(fs))

removeConnectionHeaders(h) ==
    LET c == HeaderGet(h, H_Connection)
    IN  IF c # <<>> THEN DelConnectionFields(h, SplitComma(c)) ELSE h

\* the loop of removeHopHopHeaders over the items from position i on
RECURSIVE DelHopHeadersFrom(_, _)
DelHopHeadersFrom(h, i) ==
    IF i > Len(hopHeaders)
    THEN h
    ELSE DelHopHeadersFrom(
            IF HeaderGet(h, hopHeaders[i]) # <<>>
            THEN HeaderDel(h, hopHeaders[i])
            ELSE h,
            i + 1)

\* a slip the loop could have: leaving it after the first deletion
RECURSIVE DelHopHeadersUntilFirst(_, _)
DelHopHeadersUntilFirst(h, i) ==
    IF i > Len(hopHeaders)
    THEN h
    ELSE IF HeaderGet(h, hopHeaders[i]) # <<>>
         THEN HeaderDel(h, hopHeaders[i])
         ELSE DelHopHeadersUntilFirst(h, i + 1)

removeHopHopHeaders_break(h) == DelHopHeadersUntilFirst(h, 1)

removeHopHopHeaders(h) == DelHopHeadersFrom(h, 1)

removeIssueHeader(header) ==
    removeHopHopHeaders(removeConnectionHeaders(header))

(***************************************************************************)
(* The dispatcher and the two forwarders.                                  *)
(***************************************************************************)
Requests == 1..NumRequests

MethodConnect == "CONNECT"

\* Req.Method of an incoming request
Methods == { MethodConnect, "GET" }

StatusBadGateway == 502

\* a slip: the success line without the empty line that ends it
tunnelEstablishedResponseLine_oneCRLF == "HTTP/1.1 200 Connection established\r\n"

tunnelEstablishedResponseLine == "HTTP/1.1 200 Connection established\r\n\r\n"

makeTunnelRequestLine(addr) == "CONNECT " \o addr \o " HTTP/1.1\r\n\r\n"

\* Req.URL.Host of request r
ReqHost(r) == IF r = 1 THEN "example.com:443" ELSE "example.org:8443"

\* what Delegate.ParentProxy resolves to: no parent, or the parent's URL.Host
NoParent == "none"
ParentHost == "parent.local:3128"

\* the methods of the Delegate
DelegateMethods ==
    { "Connect", "Auth", "BeforeRequest", "BeforeResponse",
      "BeforeTunnelForward", "ParentProxy", "ErrorLog", "Finish" }

\* Req.Header of an incoming request
ReqHeaderIn ==
    (H_Connection :> << <<"x","-","c","u","s","t","o","m">> >>)
    @@ (H_XCustom :> << <<"v">> >>)
    @@ (H_Accept :> << <<"v">> >>)

\* the upstream responses a round trip returns: status code and headers
UpstreamResponses ==
    { [status |-> 200,
       header |-> (H_Connection :> << <<"X","-","C","u","s","t","o","m">> >>)
                  @@ (H_XCustom :> << <<"v">> >>)
                  @@ (H_Accept :> << <<"v">> >>)],
      [status |-> 404,
       header |-> (H_Te :> << <<>> >>)
                  @@ (H_Accept :> << <<>>, <<"v">> >>)] }

EmptyHeader == [n \in {} |-> <<>>]

NoCtx == [method |-> "", header |-> EmptyHeader, abort |-> FALSE]

NoResult ==
    [called |-> FALSE, err |-> FALSE, status |-> 0, header |-> EmptyHeader,
     bodyLeft |-> 0, bodyOpen |-> FALSE]

\* a ResponseWriter nothing was written to
FreshWriter ==
    [hijacked |-> FALSE, status |-> 0, header |-> EmptyHeader, body |-> 0,
     writeHeaderCalls |-> 0]

\* a net.Conn: its status, what was written to it, and whether SetDeadline
\* was called on it.  The status is "none" before the stream exists, "open",
\* "eof" once a read of it returned end-of-stream (writes to it still
\* work), "broken" once the peer reset it and "timeout" once its deadline
\* passed (every later read and write fails), and "closed" once Close was
\* called on it here.
NoConn == [status |-> "none", recv |-> <<>>, deadline |-> FALSE]

\* the bytes relayed into a stream so far
Relayed(c, b) == Len(SelectSeq(c.recv, LAMBDA x : x = b))

InitReq ==
    /\ clientConnNum = 0
    /\ pc = [r \in Requests |-> "idle"]
    /\ gpc = [r \in Requests |-> "none"]
    /\ ctx = [r \in Requests |-> NoCtx]
    /\ panicking = [r \in Requests |-> FALSE]
    /\ calls = [r \in Requests |-> [m \in DelegateMethods |-> 0]]
    /\ rt = [r \in Requests |-> NoResult]
    /\ rw = [r \in Requests |-> FreshWriter]
    /\ tun = [r \in Requests |-> [parent |-> "unresolved", targetAddr |-> ""]]
    /\ conn = [r \in Requests |-> [client |-> NoConn, target |-> NoConn]]

\* ResponseWriter.WriteHeader of net/http's server: dropped on a hijacked
\* connection, and dropped when a status was written before
WriteHeader(w, code) ==
    [w EXCEPT !.writeHeaderCalls = @ + 1,
              !.status = IF w.hijacked \/ w.status # 0 THEN @ ELSE code]

\* one more invocation of Delegate method m by request r
Invoke(r, m) == [calls EXCEPT ![r][m] = @ + 1]

\* net.Conn.Close: closing a closed stream leaves it closed
Close(c) == [c EXCEPT !.status = "closed"]

\* whether I/O on c fails at once: closed here, broken, or past its deadline
Dead(c) == c.status \in {"closed", "broken", "timeout"}

\* copyHeader's inner loop: the values of one name, in their order
RECURSIVE AddValues(_, _, _)
AddValues(dst, k, vv) ==
    IF vv = <<>> THEN dst ELSE AddValues(HeaderAdd(dst, k, Head(vv)), k, Tail(vv))

\* copyHeader's outer loop over the names ks of src still to copy: a range
\* over a map visits the names in any order, so this is the set of the
\* collections the loop can leave (they differ only when two names of src
\* have the same canonical form)
RECURSIVE CopyNames(_, _, _)
CopyNames(dst, src, ks) ==
    IF ks = {}
    THEN {dst}
    ELSE UNION { CopyNames(AddValues(dst, k, src[k]), src, ks \ {k}) :
                   k \in ks }

\* copyHeader(dst, src): the collections dst can be afterwards
copyHeader(dst, src) == CopyNames(dst, src, DOMAIN src)

(***************************************************************************)
(* Proxy.ServeHTTP                                                         *)
(***************************************************************************)
\* a pipeline hook runs at position stage: it returns, or sets the abort
\* flag and returns, or panics.  No deferred call of a forwarder is
\* registered at any of these positions, so both an abort and a panic lead
\* to ServeHTTP's deferred Finish.
\* a slip: the two calls of ServeHTTP are not deferred, a panic skips them
RunHook_panicSkipsDeferred(r, stage, next) ==
    /\ pc[r] = stage
    /\ calls' = Invoke(r, stage)
    /\ \/ /\ pc' = [pc EXCEPT ![r] = next]
          /\ UNCHANGED <<ctx, panicking>>
       \/ /\ ctx' = [ctx EXCEPT ![r].abort = TRUE]
          /\ pc' = [pc EXCEPT ![r] = "Finish"]
          /\ UNCHANGED panicking
       \/ /\ panicking' = [panicking EXCEPT ![r] = TRUE]
          /\ pc' = [pc EXCEPT ![r] = "done"]
          /\ UNCHANGED ctx

\* a slip: the abort flag is not looked at after the hook
RunHook_abortIgnored(r, stage, next) ==
    /\ pc[r] = stage
    /\ calls' = Invoke(r, stage)
    /\ \/ /\ pc' = [pc EXCEPT ![r] = next]
          /\ UNCHANGED <<ctx, panicking>>
       \/ /\ ctx' = [ctx EXCEPT ![r].abort = TRUE]
          /\ pc' = [pc EXCEPT ![r] = next]
          /\ UNCHANGED panicking
       \/ /\ panicking' = [panicking EXCEPT ![r] = TRUE]
          /\ pc' = [pc EXCEPT ![r] = "Finish"]
          /\ UNCHANGED ctx

RunHook(r, stage, next) ==
    /\ pc[r] = stage
    /\ calls' = Invoke(r, stage)
    /\ \/ /\ pc' = [pc EXCEPT ![r] = next]
          /\ UNCHANGED <<ctx, panicking>>
       \/ /\ ctx' = [ctx EXCEPT ![r].abort = TRUE]
          /\ pc' = [pc EXCEPT ![r] = "Finish"]
          /\ UNCHANGED panicking
       \/ /\ panicking' = [panicking EXCEPT ![r] = TRUE]
          /\ pc' = [pc EXCEPT ![r] = "Finish"]
          /\ UNCHANGED ctx

Enter(r) ==
    /\ pc[r] = "idle"
    /\ \E m \in Methods :
         ctx' = [ctx EXCEPT ![r] = [method |-> m, header |-> ReqHeaderIn,
                                    abort |-> FALSE]]
    /\ clientConnNum' = clientConnNum + 1
    /\ pc' = [pc EXCEPT ![r] = "Connect"]
    /\ UNCHANGED <<gpc, panicking, calls, rt, rw, tun, conn>>
    /\ UNCHANGED sanVars

\* a slip: the Auth stage is left out of the pipeline
Connect_skipsAuth(r) ==
    /\ RunHook(r, "Connect",
               IF ctx[r].method = MethodConnect
               THEN "BeforeTunnelForward" ELSE "BeforeRequest")
    /\ UNCHANGED <<clientConnNum, gpc, rt, rw, tun, conn>>
    /\ UNCHANGED sanVars

Connect(r) ==
    /\ RunHook(r, "Connect", "Auth")
    /\ UNCHANGED <<clientConnNum, gpc, rt, rw, tun, conn>>
    /\ UNCHANGED sanVars

\* a slip: the switch sends every request to forwardHTTP
Auth_alwaysHTTP(r) ==
    /\ RunHook(r, "Auth", "BeforeRequest")
    /\ UNCHANGED <<clientConnNum, gpc, rt, rw, tun, conn>>
    /\ UNCHANGED sanVars

Auth(r) ==
    /\ RunHook(r, "Auth",
               IF ctx[r].method = MethodConnect
               THEN "BeforeTunnelForward" ELSE "BeforeRequest")
    /\ UNCHANGED <<clientConnNum, gpc, rt, rw, tun, conn>>
    /\ UNCHANGED sanVars

\* the deferred p.delegate.Finish(ctx)
Finish(r) ==
    /\ pc[r] = "Finish"
    /\ calls' = Invoke(r, "Finish")
    /\ \/ UNCHANGED panicking
       \/ panicking' = [panicking EXCEPT ![r] = TRUE]
    /\ pc' = [pc EXCEPT ![r] = "Decrement"]
    /\ UNCHANGED <<clientConnNum, gpc, ctx, rt, rw, tun, conn>>
    /\ UNCHANGED sanVars

\* the deferred atomic.AddInt32(&p.clientConnNum, -1)
Exit(r) ==
    /\ pc[r] = "Decrement"
    /\ clientConnNum' = clientConnNum - 1
    /\ pc' = [pc EXCEPT ![r] = "done"]
    /\ UNCHANGED <<gpc, ctx, panicking, calls, rt, rw, tun, conn>>
    /\ UNCHANGED sanVars

\* Proxy.ClientConnNum
ClientConnNum == clientConnNum

(***************************************************************************)
(* Proxy.forwardHTTP                                                       *)
(***************************************************************************)
BeforeRequest(r) ==
    /\ RunHook(r, "BeforeRequest", "SanitizeRequest")
    /\ UNCHANGED <<clientConnNum, gpc, rt, rw, tun, conn>>
    /\ UNCHANGED sanVars

\* removeIssueHeader(ctx.Req.Header)
SanitizeRequest(r) ==
    /\ pc[r] = "SanitizeRequest"
    /\ ctx' = [ctx EXCEPT ![r].header = removeIssueHeader(@)]
    /\ pc' = [pc EXCEPT ![r] = "RoundTrip"]
    /\ UNCHANGED <<clientConnNum, gpc, panicking, calls, rt, rw, tun, conn>>
    /\ UNCHANGED sanVars

\* inside p.transport.RoundTrip(ctx.Req): the transport asks its Proxy
\* function, which New set to p.delegate.ParentProxy, where to connect,
\* once per attempt (again for each retry on a stale kept-alive
\* connection), and then waits for the upstream
TransportProxy(r) ==
    /\ pc[r] = "RoundTrip"
    /\ calls[r]["ParentProxy"] < MaxProxyCalls
    /\ calls' = Invoke(r, "ParentProxy")
    /\ UNCHANGED <<clientConnNum, pc, gpc, ctx, panicking, rt, rw, tun, conn>>
    /\ UNCHANGED sanVars

\* p.transport.RoundTrip(ctx.Req) returns: an error or a response, after
\* any number of attempts; without one when the transport rejects the
\* request before connecting (no scheme, no host, request cancelled) or
\* answers through a round tripper of its own for the scheme (a registered
\* protocol, a cached HTTP/2 connection)
RoundTrip(r) ==
    /\ pc[r] = "RoundTrip"
    /\ \/ rt' = [rt EXCEPT ![r] =
                    [NoResult EXCEPT !.called = TRUE, !.err = TRUE]]
       \/ \E u \in UpstreamResponses :
            rt' = [rt EXCEPT ![r] =
                     [called |-> TRUE, err |-> FALSE, status |-> u.status,
                      header |-> u.header, bodyLeft |-> MaxBody,
                      bodyOpen |-> TRUE]]
    /\ pc' = [pc EXCEPT ![r] = "BeforeResponse"]
    /\ UNCHANGED <<clientConnNum, gpc, ctx, panicking, calls, rw, tun, conn>>
    /\ UNCHANGED sanVars

BeforeResponse(r) ==
    /\ RunHook(r, "BeforeResponse",
               IF rt[r].err THEN "HTTPError" ELSE "WriteResponse")
    /\ UNCHANGED <<clientConnNum, gpc, rt, rw, tun, conn>>
    /\ UNCHANGED sanVars

\* a slip: the failure is logged and no status is written
HTTPError_noWriteHeader(r) ==
    /\ pc[r] = "HTTPError"
    /\ calls' = Invoke(r, "ErrorLog")
    /\ pc' = [pc EXCEPT ![r] = "Finish"]
    /\ UNCHANGED <<clientConnNum, gpc, ctx, panicking, rt, rw, tun, conn>>
    /\ UNCHANGED sanVars

\* the round trip failed: ErrorLog, WriteHeader(502), return
HTTPError(r) ==
    /\ pc[r] = "HTTPError"
    /\ calls' = Invoke(r, "ErrorLog")
    /\ rw' = [rw EXCEPT ![r] = WriteHeader(@, StatusBadGateway)]
    /\ pc' = [pc EXCEPT ![r] = "Finish"]
    /\ UNCHANGED <<clientConnNum, gpc, ctx, panicking, rt, tun, conn>>
    /\ UNCHANGED sanVars

\* defer resp.Body.Close(); removeIssueHeader(resp.Header);
\* copyHeader(rw.Header(), resp.Header); rw.WriteHeader(resp.StatusCode)
WriteResponse(r) ==
    /\ pc[r] = "WriteResponse"
    /\ LET h == removeIssueHeader(rt[r].header)
       IN  /\ rt' = [rt EXCEPT ![r].header = h]
           /\ \E copied \in copyHeader(rw[r].header, h) :
                 rw' = [rw EXCEPT ![r] =
                          WriteHeader([@ EXCEPT !.header = copied],
                                      rt[r].status)]
    /\ pc' = [pc EXCEPT ![r] = "CopyBodyRead"]
    /\ UNCHANGED <<clientConnNum, gpc, ctx, panicking, calls, tun, conn>>
    /\ UNCHANGED sanVars

\* io.Copy(rw, resp.Body) reads resp.Body: a chunk comes, or the body has
\* ended, or the read fails
CopyBodyRead(r) ==
    /\ pc[r] = "CopyBodyRead"
    /\ \/ /\ rt[r].bodyLeft > 0
          /\ rt' = [rt EXCEPT ![r].bodyLeft = @ - 1]
          /\ pc' = [pc EXCEPT ![r] = "CopyBodyWrite"]
       \/ /\ rt[r].bodyLeft = 0
          /\ pc' = [pc EXCEPT ![r] = "CloseBody"]
          /\ UNCHANGED rt
       \/ /\ rt[r].bodyLeft > 0
          /\ pc' = [pc EXCEPT ![r] = "CloseBody"]
          /\ UNCHANGED rt
    /\ UNCHANGED <<clientConnNum, gpc, ctx, panicking, calls, rw, tun, conn>>
    /\ UNCHANGED sanVars

\* a slip: a failed write of the body answers with a second status
CopyBodyWrite_secondStatus(r) ==
    /\ pc[r] = "CopyBodyWrite"
    /\ \/ /\ rw' = [rw EXCEPT ![r].body = @ + 1]
          /\ pc' = [pc EXCEPT ![r] = "CopyBodyRead"]
       \/ /\ rw' = [rw EXCEPT ![r] = WriteHeader(@, StatusBadGateway)]
          /\ pc' = [pc EXCEPT ![r] = "CloseBody"]
    /\ UNCHANGED <<clientConnNum, gpc, ctx, panicking, calls, rt, tun, conn>>
    /\ UNCHANGED sanVars

\* io.Copy(rw, resp.Body) writes the chunk it read to rw: it reaches the
\* response sink, or the write fails (the client is gone) and the chunk is
\* lost; io.Copy returns then and its error is dropped
CopyBodyWrite(r) ==
    /\ pc[r] = "CopyBodyWrite"
    /\ \/ /\ rw' = [rw EXCEPT ![r].body = @ + 1]
          /\ pc' = [pc EXCEPT ![r] = "CopyBodyRead"]
       \/ /\ pc' = [pc EXCEPT ![r] = "CloseBody"]
          /\ UNCHANGED rw
    /\ UNCHANGED <<clientConnNum, gpc, ctx, panicking, calls, rt, tun, conn>>
    /\ UNCHANGED sanVars

\* the deferred resp.Body.Close()
CloseBody(r) ==
    /\ pc[r] = "CloseBody"
    /\ rt' = [rt EXCEPT ![r].bodyOpen = FALSE]
    /\ pc' = [pc EXCEPT ![r] = "Finish"]
    /\ UNCHANGED <<clientConnNum, gpc, ctx, panicking, calls, rw, tun, conn>>
    /\ UNCHANGED sanVars

(***************************************************************************)
(* Proxy.forwardTunnel                                                     *)
(***************************************************************************)
BeforeTunnelForward(r) ==
    /\ RunHook(r, "BeforeTunnelForward", "Hijack")
    /\ UNCHANGED <<clientConnNum, gpc, rt, rw, tun, conn>>
    /\ UNCHANGED sanVars

\* a slip: the return after the failed hijack is missing
Hijack_failureFallsThrough(r) ==
    /\ pc[r] = "Hijack"
    /\ \/ /\ calls' = Invoke(r, "ErrorLog")
          /\ rw' = [rw EXCEPT ![r] = WriteHeader(@, StatusBadGateway)]
          /\ pc' = [pc EXCEPT ![r] = "ParentProxy"]
          /\ UNCHANGED conn
       \/ /\ rw' = [rw EXCEPT ![r].hijacked = TRUE]
          /\ conn' = [conn EXCEPT ![r].client.status = "open"]
          /\ pc' = [pc EXCEPT ![r] = "ParentProxy"]
          /\ UNCHANGED calls
    /\ UNCHANGED <<clientConnNum, gpc, ctx, panicking, rt, tun>>
    /\ UNCHANGED sanVars

\* p.hijacker(rw): rw is no http.Hijacker or Hijack() fails (ErrorLog,
\* WriteHeader(502), return), or the raw client stream is handed over and
\* its Close is deferred
Hijack(r) ==
    /\ pc[r] = "Hijack"
    /\ \/ /\ calls' = Invoke(r, "ErrorLog")
          /\ rw' = [rw EXCEPT ![r] = WriteHeader(@, StatusBadGateway)]
          /\ pc' = [pc EXCEPT ![r] = "Finish"]
          /\ UNCHANGED conn
       \/ /\ rw' = [rw EXCEPT ![r].hijacked = TRUE]
          /\ conn' = [conn EXCEPT ![r].client.status = "open"]
          /\ pc' = [pc EXCEPT ![r] = "ParentProxy"]
          /\ UNCHANGED calls
    /\ UNCHANGED <<clientConnNum, gpc, ctx, panicking, rt, tun>>
    /\ UNCHANGED sanVars

\* p.delegate.ParentProxy(ctx.Req): an error (ErrorLog, WriteHeader(502),
\* return), or no parent, or the parent's URL
ParentProxy(r) ==
    /\ pc[r] = "ParentProxy"
    /\ \/ /\ calls' = [calls EXCEPT ![r]["ParentProxy"] = @ + 1,
                                   ![r]["ErrorLog"] = @ + 1]
          /\ rw' = [rw EXCEPT ![r] = WriteHeader(@, StatusBadGateway)]
          /\ pc' = [pc EXCEPT ![r] = "DeferCloseClient"]
          /\ UNCHANGED tun
       \/ /\ \E p \in {NoParent, ParentHost} :
                tun' = [tun EXCEPT ![r].parent = p]
          /\ calls' = Invoke(r, "ParentProxy")
          /\ pc' = [pc EXCEPT ![r] = "Dial"]
          /\ UNCHANGED rw
    /\ UNCHANGED <<clientConnNum, gpc, ctx, panicking, rt, conn>>
    /\ UNCHANGED sanVars

\* a slip: the tunnel is always dialed to the request's own host
TargetAddr_ignoreParent(r) == ReqHost(r)

\* targetAddr: the parent's host if one was resolved, else the request's
TargetAddr(r) ==
    IF tun[r].parent # NoParent THEN tun[r].parent ELSE ReqHost(r)

\* a slip: the failed dial is logged and answered, and the return is missing
Dial_failureFallsThrough(r) ==
    /\ pc[r] = "Dial"
    /\ tun' = [tun EXCEPT ![r].targetAddr = TargetAddr(r)]
    /\ \/ /\ calls' = Invoke(r, "ErrorLog")
          /\ rw' = [rw EXCEPT ![r] = WriteHeader(@, StatusBadGateway)]
          /\ pc' = [pc EXCEPT ![r] = "Handshake"]
          /\ UNCHANGED conn
       \/ /\ conn' = [conn EXCEPT ![r].target.status = "open",
                                   ![r].client.deadline = TRUE,
                                   ![r].target.deadline = TRUE]
          /\ pc' = [pc EXCEPT ![r] = "Handshake"]
          /\ UNCHANGED <<calls, rw>>
    /\ UNCHANGED <<clientConnNum, gpc, ctx, panicking, rt>>
    /\ UNCHANGED sanVars

\* a slip: no deadline is set on the streams of the tunnel
Dial_noDeadlines(r) ==
    /\ pc[r] = "Dial"
    /\ tun' = [tun EXCEPT ![r].targetAddr = TargetAddr(r)]
    /\ \/ /\ calls' = Invoke(r, "ErrorLog")
          /\ rw' = [rw EXCEPT ![r] = WriteHeader(@, StatusBadGateway)]
          /\ pc' = [pc EXCEPT ![r] = "DeferCloseClient"]
          /\ UNCHANGED conn
       \/ /\ conn' = [conn EXCEPT ![r].target.status = "open"]
          /\ pc' = [pc EXCEPT ![r] = "Handshake"]
          /\ UNCHANGED <<calls, rw>>
    /\ UNCHANGED <<clientConnNum, gpc, ctx, panicking, rt>>
    /\ UNCHANGED sanVars

\* net.DialTimeout("tcp", targetAddr, ...): it fails (ErrorLog,
\* WriteHeader(502), return), or the target stream is open, its Close is
\* deferred and the deadlines of both streams are set
Dial(r) ==
    /\ pc[r] = "Dial"
    /\ tun' = [tun EXCEPT ![r].targetAddr = TargetAddr(r)]
    /\ \/ /\ calls' = Invoke(r, "ErrorLog")
          /\ rw' = [rw EXCEPT ![r] = WriteHeader(@, StatusBadGateway)]
          /\ pc' = [pc EXCEPT ![r] = "DeferCloseClient"]
          /\ UNCHANGED conn
       \/ /\ conn' = [conn EXCEPT ![r].target.status = "open",
                                   ![r].client.deadline = TRUE,
                                   ![r].target.deadline = TRUE]
          /\ pc' = [pc EXCEPT ![r] = "Handshake"]
          /\ UNCHANGED <<calls, rw>>
    /\ UNCHANGED <<clientConnNum, gpc, ctx, panicking, rt>>
    /\ UNCHANGED sanVars

\* a slip: the failed write of the success line is logged and the relay
\* starts all the same
Handshake_relaysAfterFailure(r) ==
    /\ pc[r] = "Handshake"
    /\ \/ /\ tun[r].parent = NoParent
          /\ ~Dead(conn[r].client)
          /\ conn' = [conn EXCEPT ![r].client.recv =
                         Append(@, tunnelEstablishedResponseLine)]
          /\ pc' = [pc EXCEPT ![r] = "RelayRead"]
          /\ gpc' = [gpc EXCEPT ![r] = "Read"]
          /\ UNCHANGED calls
       \/ /\ tun[r].parent = NoParent
          /\ conn' = [conn EXCEPT ![r].client.status =
                         IF Dead(conn[r].client) THEN @ ELSE "broken"]
          /\ calls' = Invoke(r, "ErrorLog")
          /\ pc' = [pc EXCEPT ![r] = "RelayRead"]
          /\ gpc' = [gpc EXCEPT ![r] = "Read"]
       \/ /\ tun[r].parent # NoParent
          /\ ~Dead(conn[r].target)
          /\ conn' = [conn EXCEPT ![r].target.recv =
                         Append(@, makeTunnelRequestLine(ReqHost(r)))]
          /\ pc' = [pc EXCEPT ![r] = "RelayRead"]
          /\ gpc' = [gpc EXCEPT ![r] = "Read"]
          /\ UNCHANGED calls
       \/ /\ tun[r].parent # NoParent
          /\ conn' = [conn EXCEPT ![r].target.status =
                         IF Dead(conn[r].target) THEN @ ELSE "broken"]
          /\ pc' = [pc EXCEPT ![r] = "RelayRead"]
          /\ gpc' = [gpc EXCEPT ![r] = "Read"]
          /\ UNCHANGED calls
    /\ UNCHANGED <<clientConnNum, ctx, panicking, rt, rw, tun>>
    /\ UNCHANGED sanVars

\* the handshake write, then forwardTCP's go statement.  Without a parent
\* the success line goes to the client and a failed write ends the request;
\* with a parent the CONNECT line goes to the parent and the result of the
\* write is not looked at.  A write to a stream past its deadline fails; a
\* write that fails otherwise leaves the stream broken.
Handshake(r) ==
    /\ pc[r] = "Handshake"
    /\ \/ /\ tun[r].parent = NoParent
          /\ ~Dead(conn[r].client)
          /\ conn' = [conn EXCEPT ![r].client.recv =
                         Append(@, tunnelEstablishedResponseLine)]
          /\ pc' = [pc EXCEPT ![r] = "RelayRead"]
          /\ gpc' = [gpc EXCEPT ![r] = "Read"]
          /\ UNCHANGED calls
       \/ /\ tun[r].parent = NoParent
          /\ conn' = [conn EXCEPT ![r].client.status =
                         IF Dead(conn[r].client) THEN @ ELSE "broken"]
          /\ calls' = Invoke(r, "ErrorLog")
          /\ pc' = [pc EXCEPT ![r] = "DeferCloseTarget"]
          /\ UNCHANGED gpc
       \/ /\ tun[r].parent # NoParent
          /\ ~Dead(conn[r].target)
          /\ conn' = [conn EXCEPT ![r].target.recv =
                         Append(@, makeTunnelRequestLine(ReqHost(r)))]
          /\ pc' = [pc EXCEPT ![r] = "RelayRead"]
          /\ gpc' = [gpc EXCEPT ![r] = "Read"]
          /\ UNCHANGED calls
       \/ /\ tun[r].parent # NoParent
          /\ conn' = [conn EXCEPT ![r].target.status =
                         IF Dead(conn[r].target) THEN @ ELSE "broken"]
          /\ pc' = [pc EXCEPT ![r] = "RelayRead"]
          /\ gpc' = [gpc EXCEPT ![r] = "Read"]
          /\ UNCHANGED calls
    /\ UNCHANGED <<clientConnNum, ctx, panicking, rt, rw, tun>>
    /\ UNCHANGED sanVars

(***************************************************************************)
(* Proxy.forwardTCP(src = clientConn, dst = targetConn).  The calling      *)
(* goroutine copies client -> target, the goroutine it starts copies       *)
(* target -> client; each closes both streams when its copy ends.          *)
(***************************************************************************)
\* io.Copy(dst, src) reads src: the client stream is closed or broken, so
\* the read fails at once
MainReadFails(r) ==
    /\ pc[r] = "RelayRead"
    /\ Dead(conn[r].client)
    /\ pc' = [pc EXCEPT ![r] = "RelayCloseDst"]
    /\ UNCHANGED <<clientConnNum, gpc, ctx, panicking, calls, rt, rw, tun, conn>>
    /\ UNCHANGED sanVars

\* io.Copy(dst, src) reads src: the client sends a byte, or ends its
\* stream, or the read fails (deadline, reset)
MainRead(r) ==
    /\ pc[r] = "RelayRead"
    /\ ~Dead(conn[r].client)
    /\ \/ /\ Relayed(conn[r].target, "c") < MaxBytes
          /\ pc' = [pc EXCEPT ![r] = "RelayWrite"]
          /\ UNCHANGED conn
       \/ /\ conn' = [conn EXCEPT ![r].client.status = "eof"]
          /\ pc' = [pc EXCEPT ![r] = "RelayCloseDst"]
       \/ /\ conn' = [conn EXCEPT ![r].client.status = "broken"]
          /\ pc' = [pc EXCEPT ![r] = "RelayCloseDst"]
    /\ UNCHANGED <<clientConnNum, gpc, ctx, panicking, calls, rt, rw, tun>>
    /\ UNCHANGED sanVars

\* io.Copy(dst, src) writes dst: the target stream is closed or broken
MainWriteFails(r) ==
    /\ pc[r] = "RelayWrite"
    /\ Dead(conn[r].target)
    /\ pc' = [pc EXCEPT ![r] = "RelayCloseDst"]
    /\ UNCHANGED <<clientConnNum, gpc, ctx, panicking, calls, rt, rw, tun, conn>>
    /\ UNCHANGED sanVars

\* io.Copy(dst, src) writes dst: the byte reaches the target, or the
\* write fails
MainWrite(r) ==
    /\ pc[r] = "RelayWrite"
    /\ ~Dead(conn[r].target)
    /\ \/ /\ conn' = [conn EXCEPT ![r].target.recv = Append(@, "c")]
          /\ pc' = [pc EXCEPT ![r] = "RelayRead"]
       \/ /\ conn' = [conn EXCEPT ![r].target.status = "broken"]
          /\ pc' = [pc EXCEPT ![r] = "RelayCloseDst"]
    /\ UNCHANGED <<clientConnNum, gpc, ctx, panicking, calls, rt, rw, tun>>
    /\ UNCHANGED sanVars

\* dst.Close()
MainCloseDst(r) ==
    /\ pc[r] = "RelayCloseDst"
    /\ conn' = [conn EXCEPT ![r].target = Close(@)]
    /\ pc' = [pc EXCEPT ![r] = "RelayCloseSrc"]
    /\ UNCHANGED <<clientConnNum, gpc, ctx, panicking, calls, rt, rw, tun>>
    /\ UNCHANGED sanVars

\* src.Close(), and forwardTCP returns
MainCloseSrc(r) ==
    /\ pc[r] = "RelayCloseSrc"
    /\ conn' = [conn EXCEPT ![r].client = Close(@)]
    /\ pc' = [pc EXCEPT ![r] = "DeferCloseTarget"]
    /\ UNCHANGED <<clientConnNum, gpc, ctx, panicking, calls, rt, rw, tun>>
    /\ UNCHANGED sanVars

\* the goroutine's io.Copy(src, dst) reads dst: closed or broken
GoReadFails(r) ==
    /\ gpc[r] = "Read"
    /\ Dead(conn[r].target)
    /\ gpc' = [gpc EXCEPT ![r] = "CloseSrc"]
    /\ UNCHANGED <<clientConnNum, pc, ctx, panicking, calls, rt, rw, tun, conn>>
    /\ UNCHANGED sanVars

\* the goroutine's io.Copy(src, dst) reads dst: the target sends a byte, or
\* ends its stream, or the read fails
GoRead(r) ==
    /\ gpc[r] = "Read"
    /\ ~Dead(conn[r].target)
    /\ \/ /\ Relayed(conn[r].client, "t") < MaxBytes
          /\ gpc' = [gpc EXCEPT ![r] = "Write"]
          /\ UNCHANGED conn
       \/ /\ conn' = [conn EXCEPT ![r].target.status = "eof"]
          /\ gpc' = [gpc EXCEPT ![r] = "CloseSrc"]
       \/ /\ conn' = [conn EXCEPT ![r].target.status = "broken"]
          /\ gpc' = [gpc EXCEPT ![r] = "CloseSrc"]
    /\ UNCHANGED <<clientConnNum, pc, ctx, panicking, calls, rt, rw, tun>>
    /\ UNCHANGED sanVars

\* the goroutine's io.Copy(src, dst) writes src: closed or broken
GoWriteFails(r) ==
    /\ gpc[r] = "Write"
    /\ Dead(conn[r].client)
    /\ gpc' = [gpc EXCEPT ![r] = "CloseSrc"]
    /\ UNCHANGED <<clientConnNum, pc, ctx, panicking, calls, rt, rw, tun, conn>>
    /\ UNCHANGED sanVars

\* the goroutine's io.Copy(src, dst) writes src: the byte reaches the
\* client, or the write fails
GoWrite(r) ==
    /\ gpc[r] = "Write"
    /\ ~Dead(conn[r].client)
    /\ \/ /\ conn' = [conn EXCEPT ![r].client.recv = Append(@, "t")]
          /\ gpc' = [gpc EXCEPT ![r] = "Read"]
       \/ /\ conn' = [conn EXCEPT ![r].client.status = "broken"]
          /\ gpc' = [gpc EXCEPT ![r] = "CloseSrc"]
    /\ UNCHANGED <<clientConnNum, pc, ctx, panicking, calls, rt, rw, tun>>
    /\ UNCHANGED sanVars

\* a slip: the goroutine closes only the stream it read from
GoCloseSrc_skipped(r) ==
    /\ gpc[r] = "CloseSrc"
    /\ gpc' = [gpc EXCEPT ![r] = "CloseDst"]
    /\ UNCHANGED <<clientConnNum, pc, ctx, panicking, calls, rt, rw, tun, conn>>
    /\ UNCHANGED sanVars

\* the goroutine's src.Close()
GoCloseSrc(r) ==
    /\ gpc[r] = "CloseSrc"
    /\ conn' = [conn EXCEPT ![r].client = Close(@)]
    /\ gpc' = [gpc EXCEPT ![r] = "CloseDst"]
    /\ UNCHANGED <<clientConnNum, pc, ctx, panicking, calls, rt, rw, tun>>
    /\ UNCHANGED sanVars

\* the goroutine's dst.Close(), and the goroutine ends
GoCloseDst(r) ==
    /\ gpc[r] = "CloseDst"
    /\ conn' = [conn EXCEPT ![r].target = Close(@)]
    /\ gpc' = [gpc EXCEPT ![r] = "done"]
    /\ UNCHANGED <<clientConnNum, pc, ctx, panicking, calls, rt, rw, tun>>
    /\ UNCHANGED sanVars

\* time passes: the deadline set on a stream of the tunnel (lines 196-197,
\* an absolute time, never extended) is reached; every read and write of
\* the stream fails from then on, the pending ones included
DeadlineExpires(r, side) ==
    /\ conn[r][side].deadline
    /\ conn[r][side].status \in {"open", "eof"}
    /\ conn' = [conn EXCEPT ![r][side].status = "timeout"]
    /\ UNCHANGED <<clientConnNum, pc, gpc, ctx, panicking, calls, rt, rw, tun>>
    /\ UNCHANGED sanVars

\* forwardTunnel's deferred targetConn.Close()
DeferCloseTarget(r) ==
    /\ pc[r] = "DeferCloseTarget"
    /\ conn' = [conn EXCEPT ![r].target = Close(@)]
    /\ pc' = [pc EXCEPT ![r] = "DeferCloseClient"]
    /\ UNCHANGED <<clientConnNum, gpc, ctx, panicking, calls, rt, rw, tun>>
    /\ UNCHANGED sanVars

\* a slip: the Close of the client stream is not deferred
DeferCloseClient_skipped(r) ==
    /\ pc[r] = "DeferCloseClient"
    /\ pc' = [pc EXCEPT ![r] = "Finish"]
    /\ UNCHANGED <<clientConnNum, gpc, ctx, panicking, calls, rt, rw, tun, conn>>
    /\ UNCHANGED sanVars

\* forwardTunnel's deferred clientConn.Close(), and forwardTunnel returns
DeferCloseClient(r) ==
    /\ pc[r] = "DeferCloseClient"
    /\ conn' = [conn EXCEPT ![r].client = Close(@)]
    /\ pc' = [pc EXCEPT ![r] = "Finish"]
    /\ UNCHANGED <<clientConnNum, gpc, ctx, panicking, calls, rt, rw, tun>>
    /\ UNCHANGED sanVars

(***************************************************************************)
(* The specification: the requests run concurrently, each step is one     *)
(* step of one of them.                                                    *)
(***************************************************************************)
Init ==
    /\ InitReq
    /\ hdr0 = EmptyHeader
    /\ hdr1 = EmptyHeader
    /\ hdr = EmptyHeader
    /\ nApplied = 0

\* the steps of a relay task that do not wait for a peer
MainRelayStep(r) ==
    \/ MainReadFails(r)
    \/ MainWriteFails(r)
    \/ MainCloseDst(r)
    \/ MainCloseSrc(r)

GoRelayStep(r) ==
    \/ GoReadFails(r)
    \/ GoWriteFails(r)
    \/ GoCloseSrc(r)
    \/ GoCloseDst(r)

\* the deadline of either stream of the tunnel is reached
DeadlineStep(r) ==
    \/ DeadlineExpires(r, "client")
    \/ DeadlineExpires(r, "target")

\* the steps that wait for a peer of the tunnel
PeerStep(r) ==
    \/ MainRead(r)
    \/ MainWrite(r)
    \/ GoRead(r)
    \/ GoWrite(r)

\* the steps of ServeHTTP outside the relay
ServeStep(r) ==
    \/ Enter(r)
    \/ Connect(r)
    \/ Auth(r)
    \/ BeforeRequest(r)
    \/ SanitizeRequest(r)
    \/ TransportProxy(r)
    \/ RoundTrip(r)
    \/ BeforeResponse(r)
    \/ HTTPError(r)
    \/ WriteResponse(r)
    \/ CopyBodyRead(r)
    \/ CopyBodyWrite(r)
    \/ CloseBody(r)
    \/ BeforeTunnelForward(r)
    \/ Hijack(r)
    \/ ParentProxy(r)
    \/ Dial(r)
    \/ Handshake(r)
    \/ DeferCloseTarget(r)
    \/ DeferCloseClient(r)
    \/ Finish(r)
    \/ Exit(r)

\* one step of request r: of its ServeHTTP invocation, of the goroutine its
\* forwardTCP started, of a peer of its tunnel, or of the clock
Step(r) ==
    \/ ServeStep(r)
    \/ MainRelayStep(r)
    \/ GoRelayStep(r)
    \/ PeerStep(r)
    \/ DeadlineStep(r)

Next == \E r \in Requests : Step(r)

Spec == Init /\ [][Next]_vars

(***************************************************************************)
(* One invocation on its own.  The invocations share nothing but the       *)
(* counter, so what one request does is studied with request 1 running    *)
(* alone.                                                                  *)
(***************************************************************************)
NextSingle == Step(1)

SpecSingle == Init /\ [][NextSingle]_vars

\* Fairness: a step of a relay task that waits for no peer is taken.  A
\* read or write of an open stream may wait for its peer and gets none.
SpecSingleFair ==
    /\ Init
    /\ [][NextSingle]_vars
    /\ WF_vars(MainRelayStep(1))
    /\ WF_vars(GoRelayStep(1))

\* the steps of ServeHTTP that follow forwardTCP: the deferred calls
ReturnStep(r) ==
    \/ DeferCloseTarget(r)
    \/ DeferCloseClient(r)
    \/ Finish(r)
    \/ Exit(r)

\* Fairness for a tunnel whose peers may stall for ever: the goroutines
\* that wait for no peer run, the deferred calls run, and time passes, so
\* a deadline that was set is reached.
SpecDeadlineFair ==
    /\ Init
    /\ [][NextSingle]_vars
    /\ WF_vars(MainRelayStep(1))
    /\ WF_vars(GoRelayStep(1))
    /\ WF_vars(ReturnStep(1))
    /\ WF_vars(DeadlineStep(1))

(***************************************************************************)
(* Sanitizer runs: a header collection is drawn, then removeIssueHeader    *)
(* is applied to it, and applied again.                                    *)
(***************************************************************************)
\* values a Connection header carries in the inputs
ConnValues ==
    { <<>>,
      <<"c","l","o","s","e">>,
      <<"x","-","c","u","s","t","o","m">>,
      <<"T","E",","," ","A","c","c","e","p","t"," ",",">>,
      <<VerticalTab,"x","-","c","u","s","t","o","m",NoBreakSpace>> }

\* the value lists any other header carries in the inputs
PlainLists == { << <<>> >>, << <<"v">> >>, << <<>>, <<"v">> >> }

\* the names, other than Connection, a sanitizer input may hold
SanNames == { H_Te, H_XCustom, H_Accept }

\* the value lists of a Connection header: one to MaxVals values
ConnLists == UNION { [1..n -> ConnValues] : n \in 1..MaxVals }

\* the choice of leaving a name out of the collection
Absent == <<>>

\* a collection from a choice, per name, of a value list or of absence
MakeHeader(cl, pick) ==
    LET present == { n \in SanNames : pick[n] # Absent }
                   \cup (IF cl # Absent THEN {H_Connection} ELSE {})
    IN  [n \in present |-> IF n = H_Connection THEN cl ELSE pick[n]]

SanInputs ==
    { MakeHeader(cl, pick) :
        cl \in ConnLists \cup {Absent},
        pick \in [SanNames -> PlainLists \cup {Absent}] }

InitSan ==
    /\ InitReq
    /\ hdr0 \in SanInputs
    /\ hdr1 = hdr0
    /\ hdr = hdr0
    /\ nApplied = 0

ApplySanitizer ==
    /\ nApplied < 2
    /\ hdr' = removeIssueHeader(hdr)
    /\ hdr1' = IF nApplied = 0 THEN removeIssueHeader(hdr) ELSE hdr1
    /\ nApplied' = nApplied + 1
    /\ UNCHANGED hdr0
    /\ UNCHANGED reqVars

NextSan == ApplySanitizer

SpecSan == InitSan /\ [][NextSan]_vars

(***************************************************************************)
(* Properties.                                                             *)
(***************************************************************************)
\* the invocations that have entered ServeHTTP and not yet left it
Live == { r \in Requests : pc[r] \notin {"idle", "done"} }

\* the positions of ServeHTTP after forwardTCP has returned
AfterRelay == {"DeferCloseTarget", "DeferCloseClient", "Finish", "Decrement", "done"}

\* C1: with the invocations interleaved in any way, the live-connection
\* counter equals the number of invocations that have entered and not yet
\* exited, on every path (forward, tunnel, abort, terminal error, panic in a
\* hook); it is never negative and is 0 once all invocations have exited.
C1_CounterCountsLive ==
    /\ ClientConnNum = Cardinality(Live)
    /\ ClientConnNum >= 0
    /\ ((\A r \in Requests : pc[r] = "done") => ClientConnNum = 0)

\* C1 witness: two invocations are live at once, one of them unwinding
\* from a panic raised by a hook, about to run its deferred decrement.
C1_Witness ==
    /\ ClientConnNum = 2
    /\ \E r \in Requests :
         pc[r] = "Decrement" /\ panicking[r] /\ calls[r]["Auth"] = 1

\* what a request's forwarding has done: round trip, response sink,
\* tunnel locals, streams, relay goroutine
Forwarding(r) == <<rt[r], rw[r], tun[r], conn[r], gpc[r]>>

\* C2: once a pipeline stage has set the abort flag of a request, no
\* Delegate method other than Finish is invoked for it and nothing is
\* forwarded (no round trip, no response written, no hijack, no dial, no
\* handshake, no relay); Finish is invoked exactly once per request, abort
\* or not: not before the request's forwarding is over, and once by then.
C2_AbortShortCircuits ==
    /\ [](\A r \in Requests :
            calls[r]["Finish"] =
                (IF pc[r] \in {"Decrement", "done"} THEN 1 ELSE 0))
    /\ [][\A r \in Requests :
            ctx[r].abort =>
                /\ \A m \in DelegateMethods \ {"Finish"} :
                        calls'[r][m] = calls[r][m]
                /\ Forwarding(r)' = Forwarding(r)]_vars

\* C2 witness: BeforeResponse aborted a request after its round trip, and
\* the request is over with Finish invoked once and nothing written.
C2_Witness ==
    \E r \in Requests :
        /\ ctx[r].abort
        /\ calls[r]["BeforeResponse"] = 1
        /\ pc[r] = "done"
        /\ calls[r]["Finish"] = 1
        /\ rw[r].writeHeaderCalls = 0

\* C3: forwardTCP has returned only when both copy directions are over: in
\* no state is ServeHTTP past the relay while the goroutine still copies.
C3_ReturnsAfterBothCopies ==
    \A r \in Requests :
        (pc[r] \in AfterRelay /\ gpc[r] # "none")
            => gpc[r] \notin {"Read", "Write"}

\* a read of either stream of the tunnel has returned end-of-stream
EofSeen(r) ==
    conn[r].client.status = "eof" \/ conn[r].target.status = "eof"

BothClosed(r) ==
    conn[r].client.status = "closed" /\ conn[r].target.status = "closed"

\* C4: once either side of an established tunnel has reached
\* end-of-stream, both streams are eventually closed and forwardTCP has
\* eventually returned, whichever direction ends first; a stream that is
\* closed stays closed through the further Close calls made on it (by the
\* other direction and by the deferred calls).
C4_RelayTerminates ==
    /\ \A r \in Requests :
          EofSeen(r) ~> (BothClosed(r) /\ pc[r] \in AfterRelay)
    /\ [][\A r \in Requests :
            /\ conn[r].client.status = "closed"
                  => conn'[r].client.status = "closed"
            /\ conn[r].target.status = "closed"
                  => conn'[r].target.status = "closed"]_vars

\* C4 witness: the target ended its stream first, seen by the goroutine,
\* while the calling goroutine still waits in its read of the client.
C4_Witness ==
    \E r \in Requests :
        /\ conn[r].target.status = "eof"
        /\ conn[r].client.status = "open"
        /\ gpc[r] = "CloseSrc"
        /\ pc[r] = "RelayRead"

\* every element of a stream's log is the relayed byte b
OnlyRelayed(log, b) == \A i \in DOMAIN log : log[i] = b

\* a stream's log is empty, or is the line followed by relayed bytes b only
LineThenRelayed(log, line, b) ==
    \/ log = <<>>
    \/ /\ log[1] = line
       /\ \A i \in 2..Len(log) : log[i] = b

\* the outbound connection of request r was opened
Dialed(r) == conn[r].target.status # "none"

\* C5: in a tunnel with no parent whose hijack and dial succeeded, what the
\* client stream receives is the literal success line, once and first:
\* every byte relayed to it comes after the line, no byte is relayed to the
\* target before the line, the relay does not start without it, and the
\* proxy writes nothing of its own to the target stream.
C5_SuccessLineBeforeRelay ==
    \A r \in Requests :
        (tun[r].parent = NoParent /\ Dialed(r)) =>
            /\ LineThenRelayed(conn[r].client.recv,
                               "HTTP/1.1 200 Connection established\r\n\r\n",
                               "t")
            /\ OnlyRelayed(conn[r].target.recv, "c")
            /\ conn[r].target.recv # <<>> => conn[r].client.recv # <<>>
            /\ gpc[r] # "none" => conn[r].client.recv # <<>>

\* C5 witness: a tunnel with no parent has relayed a byte each way after
\* the success line.
C5_Witness ==
    \E r \in Requests :
        /\ tun[r].parent = NoParent
        /\ conn[r].client.recv =
              <<"HTTP/1.1 200 Connection established\r\n\r\n", "t">>
        /\ conn[r].target.recv = <<"c">>

\* C6: with a parent resolved the outbound connection is opened to the
\* parent's address and not to the request's host, the parent stream
\* receives "CONNECT <request host:port> HTTP/1.1\r\n\r\n" first and before
\* any byte is relayed either way, and the success line is never written
\* to the client; with no parent the connection is opened to the
\* request's host:port.
C6_ParentHandshake ==
    \A r \in Requests :
        /\ (tun[r].parent = NoParent /\ Dialed(r))
              => tun[r].targetAddr = ReqHost(r)
        /\ (tun[r].parent = ParentHost /\ Dialed(r))
              => /\ tun[r].targetAddr = ParentHost
                 /\ tun[r].targetAddr # ReqHost(r)
        /\ tun[r].parent = ParentHost =>
              /\ LineThenRelayed(conn[r].target.recv,
                                 "CONNECT " \o ReqHost(r) \o " HTTP/1.1\r\n\r\n",
                                 "c")
              /\ OnlyRelayed(conn[r].client.recv, "t")
              /\ conn[r].client.recv # <<>> => conn[r].target.recv # <<>>
        /\ (r = 1 /\ tun[r].parent = ParentHost /\ conn[r].target.recv # <<>>)
              => conn[r].target.recv[1] =
                    "CONNECT example.com:443 HTTP/1.1\r\n\r\n"

\* C6 witness: a tunnel through the parent has relayed a byte each way
\* after the CONNECT line.
C6_Witness ==
    \E r \in Requests :
        /\ tun[r].parent = ParentHost
        /\ tun[r].targetAddr = ParentHost
        /\ conn[r].target.recv =
              <<"CONNECT example.com:443 HTTP/1.1\r\n\r\n", "c">>
        /\ conn[r].client.recv = <<"t">>

\* C7: a terminal error of forwardTunnel after the hijack (ParentProxy
\* fails, or the dial fails) gives the client exactly one 502 response, is
\* reported once through ErrorLog, and nothing is forwarded.
C7_ErrorAfterHijackSends502 ==
    \A r \in Requests :
        (/\ rw[r].hijacked
         /\ ~Dialed(r)
         /\ pc[r] \in {"DeferCloseClient", "Finish", "Decrement", "done"})
        => /\ rw[r].status = 502
           /\ calls[r]["ErrorLog"] = 1
           /\ conn[r].client.recv = <<>>
           /\ conn[r].target.recv = <<>>
           /\ gpc[r] = "none"

\* C8: when the round trip of a request fails and no hook aborts (or
\* panics), BeforeResponse has been invoked with the error before it is
\* logged, it is logged once through ErrorLog, and the response sink has
\* received status 502, no body byte and none of the upstream's headers.
C8_RoundTripErrorGives502 ==
    \A r \in Requests :
        /\ pc[r] = "HTTPError" =>
              /\ rt[r].err
              /\ calls[r]["BeforeResponse"] = 1
              /\ calls[r]["ErrorLog"] = 0
              /\ rw[r].writeHeaderCalls = 0
        /\ (rt[r].err /\ ~ctx[r].abort /\ ~panicking[r] /\ pc[r] = "Finish") =>
              /\ calls[r]["BeforeResponse"] = 1
              /\ calls[r]["ErrorLog"] = 1
              /\ rw[r].status = 502
              /\ rw[r].writeHeaderCalls = 1
              /\ rw[r].body = 0
              /\ DOMAIN rw[r].header = {}

\* C8 witness: a GET whose round trip failed has run its hooks without an
\* abort and stands before Finish with the 502 written.
C8_Witness ==
    \E r \in Requests :
        /\ ctx[r].method = "GET"
        /\ rt[r].err
        /\ ~ctx[r].abort
        /\ ~panicking[r]
        /\ pc[r] = "Finish"
        /\ rw[r].status = 502

\* the names one Connection value lists, as header keys
ListedIn(v) ==
    { CanonicalMIMEHeaderKey(TrimSpace(SplitComma(v)[i])) :
        i \in DOMAIN SplitComma(v) } \ { <<>> }

\* the names the Connection header of h lists, over all its values
ListedInConnection(h) ==
    IF H_Connection \in DOMAIN h
    THEN UNION { ListedIn(h[H_Connection][i]) : i \in DOMAIN h[H_Connection] }
    ELSE {}

\* C9: after removeIssueHeader, a header collection holds none of the nine
\* hop-by-hop names and none of the names its Connection header listed,
\* whatever the values were (empty strings, several Connection values).
C9_SanitizerRemovesAll ==
    nApplied >= 1 =>
        /\ \A i \in DOMAIN hopHeaders : hopHeaders[i] \notin DOMAIN hdr1
        /\ \A n \in ListedInConnection(hdr0) : n \notin DOMAIN hdr1

\* C10: applying removeIssueHeader twice gives the collection that
\* applying it once gives.
C10_SanitizerIdempotent ==
    nApplied = 2 => hdr = hdr1

\* C10 witness: the sanitizer was applied twice to a collection from which
\* the first application removed a name and in which it left another.
C10_Witness ==
    /\ nApplied = 2
    /\ hdr = hdr1
    /\ DOMAIN hdr1 # DOMAIN hdr0
    /\ DOMAIN hdr1 # {}
    /\ H_Connection \in DOMAIN hdr0

\* the upstream response the round trip of request r returned, as returned
Upstream(r) == CHOOSE u \in UpstreamResponses : u.status = rt[r].status

\* the response of request r has been written to the response sink
ResponseWritten(r) ==
    /\ ctx[r].method # MethodConnect
    /\ rt[r].called
    /\ ~rt[r].err
    /\ pc[r] \in {"CopyBodyRead", "CopyBodyWrite", "CloseBody"}

\* C11: for a request other than CONNECT whose round trip succeeded and
\* which no hook aborted, the response sink holds the upstream's status
\* code and a header set without Connection, without the names the
\* upstream's Connection header lists and without any hop-by-hop name,
\* while every other header of the upstream is there with its values.
C11_SanitizedResponseReachesClient ==
    \A r \in Requests :
        ResponseWritten(r) =>
            LET up == Upstream(r).header
                dropped == { hopHeaders[i] : i \in DOMAIN hopHeaders }
                               \cup ListedInConnection(up)
            IN  /\ rw[r].status = Upstream(r).status
                /\ \A n \in dropped : n \notin DOMAIN rw[r].header
                /\ \A n \in DOMAIN up \ dropped :
                        /\ n \in DOMAIN rw[r].header
                        /\ rw[r].header[n] = up[n]

\* forwardHTTP was called for request r and has just returned (or a panic
\* is unwinding it): the deferred Finish is the next call
HTTPReturned(r) ==
    /\ ctx[r].method # MethodConnect
    /\ calls[r]["BeforeRequest"] = 1
    /\ pc[r] = "Finish"

\* C12: whenever the round trip returned a response, its body is closed by
\* the time forwardHTTP has returned, on every exit path: the body streamed
\* to its end, streaming it failed, BeforeResponse set the abort flag.
C12_BodyClosedOnReturn ==
    \A r \in Requests :
        (HTTPReturned(r) /\ rt[r].called /\ ~rt[r].err) => ~rt[r].bodyOpen

\* C13 as stated: every call of forwardHTTP has written exactly one
\* response to the response sink when it returns.
C13_ExactlyOneResponse ==
    \A r \in Requests :
        HTTPReturned(r) => rw[r].writeHeaderCalls = 1

\* a hook of forwardHTTP cut the call short: it set the abort flag, or it
\* panicked
CutShort(r) == ctx[r].abort \/ panicking[r]

\* C13 amended: a call of forwardHTTP that no hook cuts short (by setting
\* the abort flag or by panicking) writes exactly one response: status 502
\* and no body when the round trip failed, else the upstream's status and
\* then body bytes of the upstream only; a call that a hook cuts short
\* writes none; in every call the status is written at most once, and once
\* written it does not change, whatever happens to the body afterwards.
C13_OneResponseUnlessCutShort ==
    /\ [](\A r \in Requests :
            /\ rw[r].writeHeaderCalls <= 1
            /\ rw[r].body > 0 => rw[r].status # 0
            /\ HTTPReturned(r) =>
                  /\ CutShort(r) =>
                        rw[r].writeHeaderCalls = 0 /\ rw[r].status = 0
                                                   /\ rw[r].body = 0
                  /\ ~CutShort(r) =>
                        /\ rw[r].writeHeaderCalls = 1
                        /\ rt[r].err =>
                              rw[r].status = StatusBadGateway /\ rw[r].body = 0
                        /\ ~rt[r].err =>
                              /\ rw[r].status = rt[r].status
                              /\ rw[r].body + rt[r].bodyLeft <= MaxBody)
    /\ [][\A r \in Requests :
            rw[r].status # 0 => rw'[r].status = rw[r].status]_vars

\* C13 witness: streaming the body of a response failed after it began: a
\* chunk was read and the write of it to the sink failed; the call has
\* returned with the upstream's status written once.
C13_Witness ==
    \E r \in Requests :
        /\ HTTPReturned(r)
        /\ rt[r].status = 200
        /\ rw[r].status = 200
        /\ rw[r].writeHeaderCalls = 1
        /\ rw[r].body + rt[r].bodyLeft < MaxBody
        /\ ~rt[r].bodyOpen

\* the handshake write of request r has been attempted
HandshakeAttempted(r) ==
    /\ Dialed(r)
    /\ pc[r] \notin {"Handshake"}

\* a byte was relayed in a tunnel of request r, in either direction
SomeRelayed(r) ==
    Relayed(conn[r].client, "t") > 0 \/ Relayed(conn[r].target, "c") > 0

\* what has happened for request r implies what comes before it in the
\* pipeline
StagesInOrder(r) ==
    /\ pc[r] = "idle" => /\ \A m \in DelegateMethods : calls[r][m] = 0
                         /\ Forwarding(r) = <<NoResult, FreshWriter,
                              [parent |-> "unresolved", targetAddr |-> ""],
                              [client |-> NoConn, target |-> NoConn], "none">>
    /\ calls[r]["Auth"] = 1 => calls[r]["Connect"] = 1
    \* the HTTP forwarder
    /\ calls[r]["BeforeRequest"] = 1 => calls[r]["Auth"] = 1
    /\ ctx[r].header # ReqHeaderIn =>
          \/ pc[r] = "idle"
          \/ /\ calls[r]["BeforeRequest"] = 1
             /\ pc[r] \notin {"BeforeRequest", "SanitizeRequest"}
    /\ pc[r] = "RoundTrip" => ctx[r].header = removeIssueHeader(ReqHeaderIn)
    /\ (calls[r]["ParentProxy"] > 0 /\ ctx[r].method # MethodConnect)
          => /\ calls[r]["BeforeRequest"] = 1
             /\ ctx[r].header = removeIssueHeader(ReqHeaderIn)
             /\ pc[r] \notin {"BeforeRequest", "SanitizeRequest"}
    /\ rt[r].called => /\ calls[r]["BeforeRequest"] = 1
                       /\ ctx[r].header = removeIssueHeader(ReqHeaderIn)
    /\ calls[r]["BeforeResponse"] = 1 => rt[r].called
    /\ (rw[r].writeHeaderCalls = 1 /\ ctx[r].method # MethodConnect)
          => calls[r]["BeforeResponse"] = 1
    /\ (rw[r].status # 0 /\ rt[r].called /\ ~rt[r].err)
          => rt[r].header = removeIssueHeader(Upstream(r).header)
    /\ rw[r].body > 0 => rw[r].writeHeaderCalls = 1
    \* the tunnel forwarder
    /\ calls[r]["BeforeTunnelForward"] = 1 => calls[r]["Auth"] = 1
    /\ rw[r].hijacked => calls[r]["BeforeTunnelForward"] = 1
    /\ conn[r].client.status # "none" => rw[r].hijacked
    /\ (calls[r]["ParentProxy"] = 1 /\ ctx[r].method = MethodConnect)
          => rw[r].hijacked
    /\ tun[r].parent # "unresolved" => calls[r]["ParentProxy"] = 1
    /\ Dialed(r) => tun[r].parent # "unresolved"
    /\ (conn[r].client.recv # <<>> \/ conn[r].target.recv # <<>>)
          => HandshakeAttempted(r)
    /\ gpc[r] # "none" => HandshakeAttempted(r)
    /\ SomeRelayed(r) => gpc[r] # "none"
    \* Finish and the decrement
    /\ calls[r]["Finish"] = (IF pc[r] \in {"Decrement", "done"} THEN 1 ELSE 0)

\* no stage of request r has run twice.  (The calls of ParentProxy that
\* the transport makes inside the round trip of an HTTP request are part of
\* that one stage; there is one per attempt of the transport.)
NoStageTwice(r) ==
    /\ \A m \in DelegateMethods \ {"ParentProxy"} : calls[r][m] <= 1
    /\ ctx[r].method = MethodConnect => calls[r]["ParentProxy"] <= 1
    /\ rw[r].writeHeaderCalls <= 1
    /\ Len(conn[r].client.recv) <= 1 + MaxBytes
    /\ Len(conn[r].target.recv) <= 1 + MaxBytes

\* C14: within one request the events come in the order counter
\* increment, Connect, Auth, the stages of one forwarder (BeforeRequest,
\* sanitized request headers, round trip, BeforeResponse, sanitized
\* response headers, response write; or BeforeTunnelForward, hijack,
\* ParentProxy, dial, handshake, relay), Finish, counter decrement: no hook
\* runs before the increment or after the decrement, Finish is the last
\* hook and nothing is forwarded after it, and no stage runs twice.
C14_StagesInOrder ==
    /\ [](\A r \in Requests : StagesInOrder(r) /\ NoStageTwice(r))
    /\ [][\A r \in Requests :
            /\ calls'[r] # calls[r] =>
                  /\ pc[r] \notin {"idle", "Decrement", "done"}
                  /\ calls[r]["Finish"] = 0
                  /\ clientConnNum >= 1
            /\ pc[r] \in {"Decrement", "done"} =>
                  /\ <<rt[r], rw[r], tun[r]>>' = <<rt[r], rw[r], tun[r]>>
                  /\ conn'[r].client.recv = conn[r].client.recv
                  /\ conn'[r].target.recv = conn[r].target.recv
            /\ (rt[r].called \/ pc[r] # "RoundTrip")
                  => \/ calls'[r]["ParentProxy"] = calls[r]["ParentProxy"]
                     \/ pc[r] = "ParentProxy"
            /\ clientConnNum' < clientConnNum =>
                  \E q \in Requests :
                      pc[q] = "Decrement" /\ calls[q]["Finish"] = 1]_vars

\* C14 witness: a tunnel request has gone through every stage, a byte was
\* relayed each way, Finish has run and the counter was decremented.
C14_Witness ==
    \E r \in Requests :
        /\ pc[r] = "done"
        /\ \A m \in {"Connect", "Auth", "BeforeTunnelForward",
                       "ParentProxy", "Finish"} : calls[r][m] = 1
        /\ Relayed(conn[r].client, "t") = 1
        /\ Relayed(conn[r].target, "c") = 1
        /\ clientConnNum = 0

\* the hijack of request r was tried and gave no client stream
HijackFailed(r) ==
    /\ ctx[r].method = MethodConnect
    /\ calls[r]["BeforeTunnelForward"] = 1
    /\ ~ctx[r].abort
    /\ ~rw[r].hijacked
    /\ \/ pc[r] = "Finish" /\ ~panicking[r]
       \/ pc[r] \in {"Decrement", "done"} /\ calls[r]["ErrorLog"] = 1

\* C15: when forwardTunnel cannot acquire the raw client stream (rw is no
\* Hijacker, or Hijack fails), the failure is logged once through
\* ErrorLog, status 502 is written to the response sink and the request
\* stops: ParentProxy is not consulted, nothing is dialed, no handshake is
\* written and no relay starts; Finish is all that follows.
C15_HijackFailureGives502 ==
    /\ [](\A r \in Requests :
            /\ (pc[r] \in {"ParentProxy", "Dial", "Handshake"} \/ Dialed(r)
                   \/ tun[r].parent # "unresolved")
                  => rw[r].hijacked
            /\ HijackFailed(r) =>
                  /\ calls[r]["ErrorLog"] = 1
                  /\ rw[r].status = StatusBadGateway
                  /\ rw[r].writeHeaderCalls = 1
                  /\ calls[r]["ParentProxy"] = 0
                  /\ tun[r] = [parent |-> "unresolved", targetAddr |-> ""]
                  /\ conn[r] = [client |-> NoConn, target |-> NoConn]
                  /\ gpc[r] = "none")
    /\ [][\A r \in Requests :
            HijackFailed(r) =>
                /\ \A m \in DelegateMethods \ {"Finish"} :
                        calls'[r][m] = calls[r][m]
                /\ Forwarding(r)' = Forwarding(r)
                /\ pc'[r] \in {"Finish", "Decrement", "done"}]_vars

\* C15 witness: a CONNECT request whose hijack failed is over: the 502 is
\* in the response sink, the failure was logged, ParentProxy was not asked.
C15_Witness ==
    \E r \in Requests :
        /\ HijackFailed(r)
        /\ pc[r] = "done"
        /\ rw[r].status = 502
        /\ calls[r]["ErrorLog"] = 1
        /\ calls[r]["ParentProxy"] = 0

\* forwardTunnel has returned for request r
TunnelReturned(r) ==
    /\ ctx[r].method = MethodConnect
    /\ calls[r]["BeforeTunnelForward"] = 1
    /\ pc[r] \in {"Finish", "Decrement", "done"}

\* C16: when forwardTunnel has returned, the client stream is closed if
\* the hijack gave one and the target stream is closed if the dial gave
\* one, on every exit path (ParentProxy failed, the dial failed, the
\* handshake write failed, the relay ended at either side); a stream that
\* was closed is not open again, so none is open after Finish has run.
C16_StreamsClosedOnReturn ==
    /\ [](\A r \in Requests :
            /\ TunnelReturned(r) =>
                  /\ rw[r].hijacked => conn[r].client.status = "closed"
                  /\ Dialed(r) => conn[r].target.status = "closed"
            /\ calls[r]["Finish"] = 1 =>
                  /\ conn[r].client.status \in {"none", "closed"}
                  /\ conn[r].target.status \in {"none", "closed"})
    /\ [][\A r \in Requests :
            /\ conn[r].client.status = "closed"
                  => conn'[r].client.status = "closed"
            /\ conn[r].target.status = "closed"
                  => conn'[r].target.status = "closed"
            /\ conn[r].client.status # "none"
                  => conn'[r].client.status # "none"]_vars

\* C16 witness: ParentProxy failed after the hijack; forwardTunnel has
\* returned with the client stream closed and no target stream.
C16_Witness ==
    \E r \in Requests :
        /\ TunnelReturned(r)
        /\ rw[r].hijacked
        /\ tun[r].parent = "unresolved"
        /\ conn[r].client.status = "closed"
        /\ conn[r].target.status = "none"

\* the write of the success line to the client of request r failed
SuccessLineFailed(r) ==
    /\ tun[r].parent = NoParent
    /\ Dialed(r)
    /\ pc[r] \notin {"Dial", "Handshake"}
    /\ conn[r].client.recv = <<>>

\* C17: in a tunnel with no parent, when writing the success line to the
\* client stream fails, the failure is logged once through ErrorLog, no
\* status is written to the response sink, the relay does not start (no
\* goroutine, no byte copied either way), and both streams are closed when
\* forwardTunnel returns.
C17_SuccessLineFailureIsSilent ==
    \A r \in Requests :
        SuccessLineFailed(r) =>
            /\ calls[r]["ErrorLog"] = 1
            /\ rw[r].writeHeaderCalls = 0
            /\ rw[r].status = 0
            /\ gpc[r] = "none"
            /\ pc[r] \in AfterRelay
            /\ conn[r].target.recv = <<>>
            /\ pc[r] \in {"Finish", "Decrement", "done"} => BothClosed(r)

\* C17 witness: the write of the success line failed and forwardTunnel has
\* returned: one ErrorLog call, both streams closed, nothing relayed.
C17_Witness ==
    \E r \in Requests :
        /\ SuccessLineFailed(r)
        /\ pc[r] = "Finish"
        /\ calls[r]["ErrorLog"] = 1
        /\ BothClosed(r)

\* the relay of request r is established: forwardTCP was called
RelayStarted(r) == gpc[r] # "none"

\* C18: an established relay ends even if neither peer closes or sends
\* end-of-stream: both streams have a deadline set before the handshake
\* write, and once the relay has started both streams are eventually
\* closed and the request is eventually over, with Finish run and the
\* counter decremented.
C18_DeadlinesEndRelay ==
    /\ [](\A r \in Requests :
            Dialed(r) =>
                conn[r].client.deadline /\ conn[r].target.deadline)
    /\ \A r \in Requests :
          RelayStarted(r) ~>
              (/\ BothClosed(r)
               /\ pc[r] = "done"
               /\ calls[r]["Finish"] = 1
               /\ clientConnNum = 0)

\* C18 witness: neither peer has sent a byte or ended its stream; the
\* deadline of the client stream was reached while the calling goroutine
\* waited in its read, and the goroutine still waits in its read of the
\* target.
C18_Witness ==
    \E r \in Requests :
        /\ conn[r].client.status = "timeout"
        /\ conn[r].target.status = "open"
        /\ pc[r] = "RelayCloseDst"
        /\ gpc[r] = "Read"
        /\ ~SomeRelayed(r)

\* the positions of ServeHTTP inside forwardHTTP
HTTPPositions ==
    {"BeforeRequest", "SanitizeRequest", "RoundTrip", "BeforeResponse",
     "HTTPError", "WriteResponse", "CopyBodyRead", "CopyBodyWrite",
     "CloseBody"}

\* the positions of ServeHTTP inside forwardTunnel and forwardTCP
TunnelPositions ==
    {"BeforeTunnelForward", "Hijack", "ParentProxy", "Dial", "Handshake",
     "RelayRead", "RelayWrite", "RelayCloseDst", "RelayCloseSrc",
     "DeferCloseTarget", "DeferCloseClient"}

\* C19: the method branch is exclusive: for a CONNECT request
\* BeforeRequest, the header sanitization, the round trip and
\* BeforeResponse never occur and nothing is written through the HTTP
\* forwarder; for any other method BeforeTunnelForward, the hijack, the
\* dial, the handshake and the relay never occur.
C19_MethodBranchExclusive ==
    \A r \in Requests :
        /\ ctx[r].method = MethodConnect =>
              /\ pc[r] \notin HTTPPositions
              /\ calls[r]["BeforeRequest"] = 0
              /\ calls[r]["BeforeResponse"] = 0
              /\ rt[r] = NoResult
              /\ ctx[r].header = ReqHeaderIn
              /\ rw[r].header = EmptyHeader
              /\ rw[r].body = 0
        /\ (pc[r] # "idle" /\ ctx[r].method # MethodConnect) =>
              /\ pc[r] \notin TunnelPositions
              /\ calls[r]["BeforeTunnelForward"] = 0
              /\ ~rw[r].hijacked
              /\ tun[r] = [parent |-> "unresolved", targetAddr |-> ""]
              /\ conn[r] = [client |-> NoConn, target |-> NoConn]
              /\ gpc[r] = "none"

\* C19 witness: a CONNECT request is over after a relay, with its header
\* collection as it came in and no round trip made.
C19_Witness ==
    \E r \in Requests :
        /\ ctx[r].method = MethodConnect
        /\ pc[r] = "done"
        /\ SomeRelayed(r)
        /\ H_Connection \in DOMAIN ctx[r].header
        /\ ~rt[r].called

\* C20: the success line reaches the client only after the outbound
\* connection was opened: wherever the client stream holds it, the hijack
\* succeeded, ParentProxy was asked once and gave no parent, the dial
\* succeeded to the request's own host and no failure was logged before
\* the write; and no byte is relayed either way before the handshake
\* write was attempted.
C20_SuccessLineOnlyAfterDial ==
    \A r \in Requests :
        /\ (conn[r].client.recv # <<>>
               /\ conn[r].client.recv[1] = tunnelEstablishedResponseLine) =>
              /\ rw[r].hijacked
              /\ calls[r]["ParentProxy"] = 1
              /\ tun[r].parent = NoParent
              /\ Dialed(r)
              /\ tun[r].targetAddr = ReqHost(r)
              /\ calls[r]["ErrorLog"] = 0
              /\ rw[r].writeHeaderCalls = 0
        /\ pc[r] \in {"idle", "Connect", "Auth", "BeforeTunnelForward",
                       "Hijack", "ParentProxy", "Dial", "Handshake"} =>
              /\ conn[r].client.recv = <<>>
              /\ conn[r].target.recv = <<>>
              /\ gpc[r] = "none"
        /\ SomeRelayed(r) => HandshakeAttempted(r)

\* C20 witness: the client holds the success line and nothing else yet,
\* the relay has just started towards the dialed target.
C20_Witness ==
    \E r \in Requests :
        /\ conn[r].client.recv = <<tunnelEstablishedResponseLine>>
        /\ conn[r].target.status = "open"
        /\ conn[r].target.recv = <<>>
        /\ pc[r] = "RelayRead"
        /\ gpc[r] = "Read"

====
